---------------------------- MODULE Spec2Model ----------------------------
(***************************************************************************)
(* Model of the web page normalizer: WebsiteNormalizer.normalize (main.py) *)
(* driving StructureNormalizer (core/normalizer.py) over HTMLParser        *)
(* (core/parser.py), ResourceDownloader (core/downloader.py) and the URL   *)
(* helpers of core/utils.py.                                               *)
(*                                                                         *)
(* Strings are modelled structurally.  A URL or path string is a record    *)
(*   form   "abs"      scheme://host/segs/stem.ext?q                       *)
(*          "protorel" //host/segs/stem.ext?q                              *)
(*          "rootrel"  /segs/stem.ext?q                                    *)
(*          "rel"      segs/stem.ext?q                                     *)
(*          "opaque"   scheme:segs/stem.ext   (data:, javascript:, ...)    *)
(*          "none"     the attribute is absent                             *)
(* where the last path segment is stem, "_n" when n > 0, ".ext" when ext   *)
(* is not empty, and sfx (text that follows the extension inside the same  *)
(* segment, e.g. a query whose "?" was replaced by "_").  Two strings are  *)
(* equal exactly when their records are equal.  The tokens of the model    *)
(* hold no ".", no "/" and no "?", with two exceptions: the directory names *)
(* of DottedDirs (and the extensions get_file_extension derives from them) *)
(* and the segment ".." of the paths of the cloner.                        *)
(***************************************************************************)
EXTENDS Naturals, Sequences, FiniteSets, TLC

\* ------------------------------------------------------------ bounds
\* Largest number of elements of a page.
MaxElems == 3

\* Largest number of elements of a page that is normalized twice.
MaxElemsTwice == 2

\* Number of POST requests the front-end receives.
MaxPosts == 2

\* --------------------------------------------------------- URL strings
Ref(form, scheme, host, segs, stem, ext, q) ==
  [form |-> form, scheme |-> scheme, host |-> host, segs |-> segs,
   stem |-> stem, n |-> 0, ext |-> ext, sfx |-> "", q |-> q]

NoRef == Ref("none", "", "", <<>>, "", "", "")

\* The site that is mirrored and a host that is foreign to it.
Domain == "ex.com"
OtherHost == "other.com"

\* WebsiteNormalizer.__init__: base_url is scheme://netloc, without a path.
BaseUrl == Ref("abs", "https", Domain, <<>>, "", "", "")

\* urllib.parse.urlparse(url).netloc
netloc(url) == IF url.form \in {"abs", "protorel"} THEN url.host ELSE ""

\* The directories of a joined path with the ".." segments resolved; a ".."
\* that would climb above the root is dropped.
RECURSIVE RemoveDots(_)
RemoveDots(segs) ==
  IF segs = <<>> THEN <<>>
  ELSE LET init == RemoveDots(SubSeq(segs, 1, Len(segs) - 1))
           last == segs[Len(segs)]
       IN  IF last = ".."
           THEN IF init = <<>> THEN <<>> ELSE SubSeq(init, 1, Len(init) - 1)
           ELSE Append(init, last)

\* urllib.parse.urljoin(base, url) for a url that is neither http(s):// nor
\* //host: a string with a scheme of its own is returned as it is, a path
\* replaces (rootrel) or extends (rel) the directory of the base, and the
\* ".." segments of the joined path are resolved.
urljoin(base, url) ==
  CASE url.form = "opaque"  -> url
    [] url.form = "rootrel" -> [url EXCEPT !.form = "abs", !.scheme = base.scheme,
                                           !.host = base.host,
                                           !.segs = RemoveDots(url.segs)]
    [] url.form = "rel"     -> [url EXCEPT !.form = "abs", !.scheme = base.scheme,
                                           !.host = base.host,
                                           !.segs = RemoveDots(base.segs \o url.segs)]
    [] OTHER                -> url

\* utils.resolve_url
resolve_url(url, base_url) ==
  IF url.form = "abs" /\ url.scheme \in {"http", "https"} THEN url
  ELSE IF url.form = "protorel"
       THEN [url EXCEPT !.form = "abs", !.scheme = base_url.scheme]
       ELSE urljoin(base_url, url)

\* The registrable site of a host: the host without its port and without its
\* subdomain labels.
SiteOf(host) ==
  CASE host = "cdn.ex.com"  -> "ex.com"
    [] host = "ex.com:8080" -> "ex.com"
    [] OTHER -> host

\* A comparison of sites instead of netloc strings.
is_same_domain_by_site(url, domain) ==
  SiteOf(netloc(url)) = SiteOf(domain) \/ netloc(url) = ""

\* utils.is_same_domain
is_same_domain(url, domain) == netloc(url) = domain \/ netloc(url) = ""

\* The directory names of the model that hold a ".", and the text of the path
\* dir/stem that follows the last "." when stem has no "." of its own.
DottedDirs == {"v1.2"}

AfterLastDot(dir, stem) ==
  CASE dir = "v1.2" /\ stem = "pic" -> "2/pic"
    [] OTHER -> "2/"

\* utils.get_file_extension: the text after the last "." of the URL's path
\* (the query is not part of the path), "" when the path has no ".".  The
\* last "." is the one of the file name when it has one, else the one of the
\* directory that holds the file.
get_file_extension(url) ==
  IF url.ext # "" THEN url.ext
  ELSE IF url.segs # <<>> /\ url.segs[Len(url.segs)] \in DottedDirs
       THEN AfterLastDot(url.segs[Len(url.segs)], url.stem)
       ELSE ""

\* '.' in s.split('/')[-1]
HasDot(s) == s.ext # ""

\* re.sub(r'[<>:"|?*\x00-\x1f]', '_', token) on the tokens of the model.
SanitizeTok(t) ==
  CASE t = "mailto:a@ex" -> "mailto_a@ex"
    [] OTHER -> t

\* utils.sanitize_filename(s.split('/')[-1]): the last segment of s with the
\* illegal characters, the "?" of a query among them, replaced by "_".  The
\* names of the model are neither empty nor longer than 255 characters.
sanitize_filename(s) ==
  [stem |-> SanitizeTok(s.stem), n |-> s.n, ext |-> s.ext,
   sfx |-> IF s.q # "" THEN s.q ELSE s.sfx]

\* f"{stem}_{n}.{ext}"
Numbered(stem, n, ext) == [stem |-> stem, n |-> n, ext |-> ext, sfx |-> ""]

\* str(file_path.relative_to(output_dir)): subfolder/filename.
LocalPath(subfolder, filename) ==
  [form |-> "rel", scheme |-> "", host |-> "", segs |-> <<subfolder>>,
   stem |-> filename.stem, n |-> filename.n, ext |-> filename.ext,
   sfx |-> filename.sfx, q |-> ""]

\* f"../fonts/{file_path.name}"
UpFontsPath(path) == [path EXCEPT !.segs = <<"..", "fonts">>]


\* ------------------------------------------------------ pages and sites
\* One url(...) occurrence of a CSS text: its raw text, and whether it is the
\* url of an @font-face block of its own.
Occ(raw, ff) == [raw |-> raw, ff |-> ff]

\* An element of the document tree: attr is its href (link) or src (script,
\* img), style the url(...) occurrences of its inline style attribute,
\* text / urls the body of a <style> or inline <script> block.
Elem(tag, attr, style, text) ==
  [tag |-> tag, attr |-> attr, style |-> style, text |-> text, urls |-> <<>>,
   removed |-> FALSE]

FontUrl == Ref("abs", "https", Domain, <<>>, "f", "woff", "")

\* <link rel="stylesheet" href=...>: /s.css, /s.css?v=2, /a/s.css, /style,
\* /f.woff and https://other.com/x.css.
LinkHrefs ==
  { Ref("rootrel", "", "", <<>>, "s", "css", ""),
    Ref("rootrel", "", "", <<>>, "s", "css", "v=2"),
    Ref("rootrel", "", "", <<"a">>, "s", "css", ""),
    Ref("rootrel", "", "", <<>>, "style", "", ""),
    Ref("rootrel", "", "", <<>>, "f", "woff", ""),
    Ref("abs", "https", OtherHost, <<>>, "x", "css", "") }

\* <script src=...>: /app.js.
ScriptSrcs ==
  { Ref("rootrel", "", "", <<>>, "app", "js", "") }

\* <img src=...>: pic.jpg and data:image/png;base64,AAA.
ImgSrcs ==
  { Ref("rel", "", "", <<>>, "pic", "jpg", ""),
    Ref("opaque", "data", "", <<"data:image">>, "png;base64,AAA", "", "") }

\* The elements a page is made of: the links, scripts and images above, a
\* <head>, <style>body{color:red}</style>, <script>init()</script> and
\* <div style="background:url(bg.png)">.  The nesting of the elements is not
\* modelled: find_all and find walk the whole tree in document order.
Elements ==
  { Elem("link", h, <<>>, "") : h \in LinkHrefs }
  \cup { Elem("script", s, <<>>, "") : s \in ScriptSrcs }
  \cup { Elem("img", s, <<>>, "") : s \in ImgSrcs }
  \cup { Elem("head", NoRef, <<>>, ""),
         Elem("style", NoRef, <<>>, "body{color:red}"),
         Elem("script", NoRef, <<>>, "init()"),
         Elem("div", NoRef, <<Ref("rel", "", "", <<>>, "bg", "png", "")>>, "") }

RECURSIVE SeqsUpTo(_)
SeqsUpTo(k) ==
  IF k = 0 THEN {<<>>}
  ELSE LET shorter == SeqsUpTo(k - 1)
       IN  shorter \cup { Append(s, e) : s \in shorter, e \in Elements }

\* The pages: 1..MaxElems elements.
Pages == SeqsUpTo(MaxElems) \ {<<>>}

\* The bodies the site serves for a stylesheet:
\*   body{background:url(bg.png)}
\*   @font-face{src:url(f.woff)} @font-face{src:url(https://ex.com/f.woff)}
Bodies ==
  { << Occ(Ref("rel", "", "", <<>>, "bg", "png", ""), FALSE) >>,
    << Occ(Ref("rel", "", "", <<>>, "f", "woff", ""), TRUE), Occ(FontUrl, TRUE) >> }

\* What requests.Session.get(url) can answer.  A URL that is not http(s)
\* raises InvalidSchema, a RequestException; an http(s) URL fails with a
\* transport error or is answered, a *.css or extensionless URL with one of
\* the stylesheet bodies and any other URL with bytes that hold no url().
Responses(url) ==
  IF url.scheme \notin {"http", "https"}
  THEN { [ok |-> FALSE, err |-> "InvalidSchema", body |-> <<>>] }
  ELSE { [ok |-> FALSE, err |-> "TransportError", body |-> <<>>] }
       \cup { [ok |-> TRUE, err |-> "", body |-> b] :
                b \in IF url.ext \in {"css", ""} THEN Bodies ELSE {<<>>} }

\* ------------------------------------------------------------- parser
RECURSIVE Ascending(_)
Ascending(S) ==
  IF S = {} THEN <<>>
  ELSE LET m == CHOOSE x \in S : \A y \in S : x <= y
       IN  <<m>> \o Ascending(S \ {m})

\* soup.find_all(tag, attr=True) in document order, resolved and filtered as
\* extract_external_css / extract_external_js / the first loop of
\* extract_images do.  An entry holds the URL and the tag (its position);
\* site tells the history which list the entry came from.
ExtractByTag(soup, tag, base_url, domain) ==
  LET hits == Ascending({ i \in 1..Len(soup) :
                            /\ soup[i].tag = tag
                            /\ ~soup[i].removed
                            /\ soup[i].attr.form # "none"
                            /\ is_same_domain(resolve_url(soup[i].attr, base_url), domain) })
  IN  [k \in 1..Len(hits) |->
         [url |-> resolve_url(soup[hits[k]].attr, base_url), tag |-> hits[k],
          site |-> "attr"]]

extract_external_css(soup, base_url, domain) == ExtractByTag(soup, "link", base_url, domain)

extract_external_js(soup, base_url, domain) == ExtractByTag(soup, "script", base_url, domain)

\* re.findall over one style attribute, resolved and filtered.
RECURSIVE StyleImages(_, _, _, _)
StyleImages(style, i, base_url, domain) ==
  IF style = <<>> THEN <<>>
  ELSE LET abs_url == resolve_url(Head(style), base_url)
       IN  (IF is_same_domain(abs_url, domain)
            THEN << [url |-> abs_url, tag |-> i, site |-> "style"] >> ELSE <<>>)
           \o StyleImages(Tail(style), i, base_url, domain)

RECURSIVE AllStyleImages(_, _, _, _)
AllStyleImages(soup, i, base_url, domain) ==
  IF i > Len(soup) THEN <<>>
  ELSE (IF soup[i].removed THEN <<>>
        ELSE StyleImages(soup[i].style, i, base_url, domain))
       \o AllStyleImages(soup, i + 1, base_url, domain)

\* HTMLParser.extract_images: the <img src> references, then the url(...)
\* of every style attribute.
extract_images(soup, base_url, domain) ==
  ExtractByTag(soup, "img", base_url, domain) \o AllStyleImages(soup, 1, base_url, domain)

\* HTMLParser.extract_inline_css: the <style> blocks with a non-blank body.
extract_inline_css(soup) ==
  Ascending({ i \in 1..Len(soup) :
                soup[i].tag = "style" /\ ~soup[i].removed /\ soup[i].text # "" })

\* HTMLParser.extract_inline_js: the <script> elements without src and with
\* a non-blank body (no body of the model starts with "<!--").
extract_inline_js(soup) ==
  Ascending({ i \in 1..Len(soup) :
                /\ soup[i].tag = "script" /\ ~soup[i].removed
                /\ soup[i].attr.form = "none" /\ soup[i].text # "" })

FontExts == {"woff", "woff2", "ttf", "otf", "eot"}

\* First loop of extract_fonts_from_css: the url of every @font-face block.
RECURSIVE FontFaceUrls(_, _, _)
FontFaceUrls(css, base_url, domain) ==
  IF css = <<>> THEN <<>>
  ELSE LET abs_url == resolve_url(Head(css).raw, base_url)
       IN  (IF Head(css).ff /\ is_same_domain(abs_url, domain)
            THEN <<abs_url>> ELSE <<>>)
           \o FontFaceUrls(Tail(css), base_url, domain)

\* Second loop: every url(...) that ends in a font extension and is not in
\* the list yet.
RECURSIVE FontExtUrls(_, _, _, _)
FontExtUrls(css, fonts, base_url, domain) ==
  IF css = <<>> THEN fonts
  ELSE LET raw == Head(css).raw
           abs_url == resolve_url(raw, base_url)
           hit == /\ raw.ext \in FontExts /\ raw.q = "" /\ raw.sfx = ""
                  /\ is_same_domain(abs_url, domain)
                  /\ \A k \in 1..Len(fonts) : fonts[k] # abs_url
       IN  FontExtUrls(Tail(css), IF hit THEN Append(fonts, abs_url) ELSE fonts,
                       base_url, domain)

\* HTMLParser.extract_fonts_from_css
extract_fonts_from_css(css, base_url, domain) ==
  FontExtUrls(css, FontFaceUrls(css, base_url, domain), base_url, domain)


\* -------------------------------------------------------------- state
VARIABLES
  pc,              \* the statement WebsiteNormalizer.normalize is at
  root_response,   \* history: how the site answered the request of the page
  page,            \* the page the site serves at the root URL
  html_content,    \* what _download_html returned: <<>> is the empty string
  project_created, \* create_project_structure has run
  soup,            \* HTMLParser.soup, the document tree
  appended,        \* the tags appended to <head> and <body>, in order
  work,            \* the list a loop of the normalizer iterates, the rest of it
  idx,             \* the enumerate() index of that loop
  downloaded_urls, \* ResourceDownloader.downloaded_urls
  failed_urls,     \* ResourceDownloader.failed_urls
  requests,        \* history: the URLs handed to session.get, in order
  files,           \* the files of the project directory, path -> content
  calls,           \* history: the download_resource calls and what they wrote
  css_left,        \* _process_fonts: the css files of the glob still to visit
  cur_css,         \* _process_fonts: the css file being processed
  cur_fonts,       \* _process_fonts: font_urls of that file, the rest of it
  css_content,     \* _process_fonts: the text of that file
  fonts_found,     \* _process_fonts: fonts_found
  normalized_html, \* what StructureNormalizer.normalize returned
  index_html,      \* the index.html written, <<>> while there is none
  result,          \* what WebsiteNormalizer.normalize returned
  run,             \* which run of WebsiteNormalizer.normalize this is: 1 or 2
  first,           \* history: what the first of two runs produced
  mock,            \* the mocked transport: URL -> response (empty: any response)
  fn_arg,          \* the arguments a function or a constructor is applied to
  fn_ret,          \* what it returned, <<>> before the call
  cl_pc,           \* server.py: the statement each clone thread is at
  cl_disk,         \* server.py: the files that exist under cloned_sites/
  writers,         \* server.py: file -> the threads that hold it open for writing
  cl_log           \* server.py, history: the requests and writes of each thread

norm_vars ==
  << pc, root_response, page, html_content, project_created, soup, appended, work, idx,
     downloaded_urls, failed_urls, requests, files, calls, css_left, cur_css,
     cur_fonts, css_content, fonts_found, normalized_html,
     index_html, result >>

twice_vars == << run, first, mock >>

unit_vars == << fn_arg, fn_ret >>

server_vars == << cl_pc, cl_disk, writers, cl_log >>

vars == << norm_vars, twice_vars, unit_vars, server_vars >>

\* ---------------------------------------------------------- transport
\* What the transport answers for url: what the mock says when it is mocked.
Answers(url) == IF url \in DOMAIN mock THEN {mock[url]} ELSE Responses(url)

\* What the request of the page is answered: a second run is answered as the
\* first was.
RootAnswers == IF run = 1 THEN {"error", "empty", "page"} ELSE {root_response}

\* --------------------------------------------------------- downloader
\* The state of the ResourceDownloader, of the transport and of the disk.
Downloader ==
  [downloaded_urls |-> downloaded_urls, failed_urls |-> failed_urls,
   requests |-> requests, files |-> files]

\* open(file_path, 'w').write(content)
WriteFile(fs, path, content) ==
  [p \in DOMAIN fs \cup {path} |-> IF p = path THEN content ELSE fs[p]]

\* What is stored for a fetched URL: where it came from and its url(...);
\* orig keeps the text as it was served (history).
Fetched(url, body) == [src |-> url, urls |-> body, blocks |-> <<>>, orig |-> body]

\* download_file as it would be if a successful fetch dropped the earlier
\* failures of the same URL from failed_urls.
RECURSIVE WithoutUrl(_, _)
WithoutUrl(failed, url) ==
  IF failed = <<>> THEN <<>>
  ELSE IF Head(failed)[1] = url THEN WithoutUrl(Tail(failed), url)
       ELSE <<Head(failed)>> \o WithoutUrl(Tail(failed), url)

download_file_clearing_failures(d, url, file_path, resp) ==
  IF url \in d.downloaded_urls
  THEN [d |-> d, ret |-> TRUE, fetch |-> "skip"]
  ELSE IF resp.ok
       THEN [d |-> [d EXCEPT !.requests = Append(@, url),
                             !.files = WriteFile(@, file_path, Fetched(url, resp.body)),
                             !.downloaded_urls = @ \cup {url},
                             !.failed_urls = WithoutUrl(@, url)],
             ret |-> TRUE, fetch |-> "ok"]
       ELSE [d |-> [d EXCEPT !.requests = Append(@, url),
                             !.failed_urls = Append(@, <<url, resp.err>>)],
             ret |-> FALSE, fetch |-> "failed"]

\* download_file as it would be if a URL that is already in downloaded_urls
\* were stored again at the new file_path.
download_file_storing_again(d, url, file_path, resp) ==
  IF resp.ok
  THEN [d |-> [d EXCEPT !.requests = Append(@, url),
                        !.files = WriteFile(@, file_path, Fetched(url, resp.body)),
                        !.downloaded_urls = @ \cup {url}],
        ret |-> TRUE, fetch |-> IF url \in d.downloaded_urls THEN "skip" ELSE "ok"]
  ELSE [d |-> [d EXCEPT !.requests = Append(@, url),
                        !.failed_urls = Append(@, <<url, resp.err>>)],
        ret |-> FALSE, fetch |-> "failed"]

\* ResourceDownloader.download_file(url, file_path) when session.get(url)
\* answers resp: [d, ret], the state after the call and the value returned.
download_file(d, url, file_path, resp) ==
  IF url \in d.downloaded_urls
  THEN [d |-> d, ret |-> TRUE, fetch |-> "skip"]
  ELSE IF resp.ok
       THEN [d |-> [d EXCEPT !.requests = Append(@, url),
                             !.files = WriteFile(@, file_path, Fetched(url, resp.body)),
                             !.downloaded_urls = @ \cup {url}],
             ret |-> TRUE, fetch |-> "ok"]
       ELSE [d |-> [d EXCEPT !.requests = Append(@, url),
                             !.failed_urls = Append(@, <<url, resp.err>>)],
             ret |-> FALSE, fetch |-> "failed"]

\* download_resource as it would be if it returned the path only for a
\* resource that was stored, and the URL itself after a failed fetch.
download_resource_path_on_success(d, url, subfolder, filename, resp) ==
  LET file_path == LocalPath(subfolder, filename)
      r == download_file(d, url, file_path, resp)
  IN  [d |-> r.d, path |-> IF r.fetch = "failed" THEN url ELSE file_path,
       fetch |-> r.fetch]

\* ResourceDownloader.download_resource(url, output_dir, subfolder, filename)
\* with a filename given: [d, path, fetch], the state after the call, the
\* path returned (relative to output_dir) and what download_file did.
download_resource(d, url, subfolder, filename, resp) ==
  LET file_path == LocalPath(subfolder, filename)
      r == download_file(d, url, file_path, resp)
  IN  [d |-> r.d, path |-> file_path, fetch |-> r.fetch]

SetDownloader(d) ==
  /\ downloaded_urls' = d.downloaded_urls
  /\ failed_urls' = d.failed_urls
  /\ requests' = d.requests
  /\ files' = d.files

\* One line of the history of download_resource calls.
Call(site, tag, url, subfolder, filename, r, attr) ==
  [site |-> site, tag |-> tag, url |-> url, subfolder |-> subfolder,
   filename |-> filename, fetch |-> r.fetch, path |-> r.path, attr |-> attr]


\* ----------------------------------------------------------- actions
NoFiles == [p \in {} |-> NoRef]

InlineCssName == [stem |-> "inline", n |-> 0, ext |-> "css", sfx |-> ""]
InlineJsName == [stem |-> "inline", n |-> 0, ext |-> "js", sfx |-> ""]
PlaceholderName == [stem |-> "placeholder", n |-> 0, ext |-> "png", sfx |-> ""]
DefaultFontName == [stem |-> "font", n |-> 0, ext |-> "woff", sfx |-> ""]

\* The clone threads of server.py, one per POST request, and the files they
\* write under cloned_sites/: <site>/index.html, <site>/s.css, <site>.zip.
Threads == 1..MaxPosts
OutFiles == {"index.html", "s.css", "zip"}

NoFirst == [index_html |-> <<>>, files |-> NoFiles, paths |-> <<>>, result |-> "none"]
NoMock == [u \in {} |-> {}]

\* WebsiteNormalizer.__init__ for one of pages, at statement at.
NormInit(at, pages) ==
  /\ pc = at
  /\ root_response = "none"
  /\ page \in pages
  /\ html_content = <<>>
  /\ project_created = FALSE
  /\ soup = <<>>
  /\ appended = <<>>
  /\ work = <<>>
  /\ idx = 0
  /\ downloaded_urls = {}
  /\ failed_urls = <<>>
  /\ requests = <<>>
  /\ files = NoFiles
  /\ calls = <<>>
  /\ css_left = {}
  /\ cur_css = NoRef
  /\ cur_fonts = <<>>
  /\ css_content = <<>>
  /\ fonts_found = <<>>
  /\ normalized_html = <<>>
  /\ index_html = <<>>
  /\ result = "none"

\* A single run against a transport that is not mocked.
OneRun == run = 1 /\ first = NoFirst /\ mock = NoMock

\* No function of utils.py is under test.
NoCall == fn_arg = <<>> /\ fn_ret = <<>>

\* The front-end of server.py has received no request.
NoServer ==
  /\ cl_pc = [t \in Threads |-> "idle"]
  /\ cl_disk = {}
  /\ writers = [f \in OutFiles |-> {}]
  /\ cl_log = [t \in Threads |-> <<>>]

Init == NormInit("start", Pages) /\ OneRun /\ NoCall /\ NoServer

\* WebsiteNormalizer._download_html and the test of its result (main.py,
\* steps 1): the request of the page fails ("error"), or is answered with an
\* empty body ("empty") or with the page; _download_html returns "" for a
\* failure, and normalize returns False for "".
DownloadHtml ==
  /\ pc = "start"
  /\ UNCHANGED << twice_vars, unit_vars, server_vars >>
  /\ \E r \in RootAnswers :
       LET content == IF r = "page" THEN page ELSE <<>>
       IN  /\ root_response' = r
           /\ html_content' = content
           /\ IF content = <<>>
              THEN pc' = "done" /\ result' = "False"
              ELSE pc' = "structure" /\ result' = result
  /\ UNCHANGED << page, project_created, soup, appended, work, idx,
                  downloaded_urls, failed_urls, requests, files, calls, css_left,
                  cur_css, cur_fonts, css_content, fonts_found, normalized_html,
                  index_html >>

\* main.py steps 2 to 4: create_project_structure, a new ResourceDownloader,
\* StructureNormalizer.__init__ (the page is parsed), and the first statement
\* of StructureNormalizer.normalize, which extracts the stylesheet links.
CreateProjectStructure ==
  /\ pc = "structure"
  /\ UNCHANGED << twice_vars, unit_vars, server_vars >>
  /\ project_created' = TRUE
  /\ downloaded_urls' = {}
  /\ failed_urls' = <<>>
  /\ soup' = html_content
  /\ work' = extract_external_css(html_content, BaseUrl, Domain)
  /\ idx' = 0
  /\ pc' = "css"
  /\ UNCHANGED << root_response, page, html_content, appended, requests, files,
                  calls, css_left, cur_css, cur_fonts, css_content, fonts_found,
                  normalized_html, index_html, result >>

\* The file name _process_external_css gives the idx-th stylesheet.
css_filename(tag, i) ==
  IF tag.attr.form # "none" /\ HasDot(tag.attr)
  THEN sanitize_filename(tag.attr)
  ELSE Numbered("main", i + 1, "css")

\* One iteration of the loop of _process_external_css; after the last one
\* normalize goes on to _extract_inline_css.
ProcessExternalCss ==
  /\ pc = "css"
  /\ UNCHANGED << twice_vars, unit_vars, server_vars >>
  /\ IF work = <<>>
     THEN /\ pc' = "inline_css"
          /\ UNCHANGED << soup, work, idx, downloaded_urls, failed_urls, requests,
                          files, calls >>
     ELSE LET info == Head(work)
              tag == soup[info.tag]
              filename == css_filename(tag, idx)
          IN  \E resp \in Answers(info.url) :
                LET r == download_resource(Downloader, info.url, "css", filename, resp)
                IN  /\ SetDownloader(r.d)
                    /\ soup' = [soup EXCEPT ![info.tag].attr = r.path]
                    /\ calls' = Append(calls, Call("href", info.tag, info.url, "css",
                                                   filename, r, r.path))
                    /\ work' = Tail(work)
                    /\ idx' = idx + 1
                    /\ pc' = pc
  /\ UNCHANGED << root_response, page, html_content, project_created, appended,
                  css_left, cur_css, cur_fonts, css_content, fonts_found,
                  normalized_html, index_html, result >>

\* tag.decompose() for the tags at the positions of blocks.
Decompose(tree, blocks) ==
  [i \in 1..Len(tree) |->
     IF \E k \in 1..Len(blocks) : blocks[k] = i
     THEN [tree[i] EXCEPT !.removed = TRUE] ELSE tree[i]]

RECURSIVE JoinUrls(_, _)
JoinUrls(tree, blocks) ==
  IF blocks = <<>> THEN <<>>
  ELSE tree[Head(blocks)].urls \o JoinUrls(tree, Tail(blocks))

\* '\n\n'.join of the blocks, in the order of the list.
Combined(tree, blocks) ==
  [src |-> NoRef, urls |-> JoinUrls(tree, blocks),
   blocks |-> [k \in 1..Len(blocks) |-> tree[blocks[k]].text],
   orig |-> JoinUrls(tree, blocks)]

\* _extract_inline_css (the new <link> is appended to <head> when soup.find
\* finds one), then the extraction of the scripts that opens
\* _process_external_js.
ExtractInlineCss ==
  /\ pc = "inline_css"
  /\ UNCHANGED << twice_vars, unit_vars, server_vars >>
  /\ LET inline_styles == extract_inline_css(soup)
     IN  IF inline_styles = <<>>
         THEN UNCHANGED << soup, files, appended >>
         ELSE /\ files' = WriteFile(files, LocalPath("css", InlineCssName),
                                    Combined(soup, inline_styles))
              /\ soup' = Decompose(soup, inline_styles)
              /\ appended' = IF \E i \in 1..Len(soup) : soup[i].tag = "head"
                             THEN Append(appended,
                                         Elem("link", LocalPath("css", InlineCssName), <<>>, ""))
                             ELSE appended
  /\ work' = extract_external_js(soup', BaseUrl, Domain)
  /\ idx' = 0
  /\ pc' = "js"
  /\ UNCHANGED << root_response, page, html_content, project_created,
                  downloaded_urls, failed_urls, requests, calls, css_left, cur_css,
                  cur_fonts, css_content, fonts_found, normalized_html, index_html,
                  result >>

\* The file name _process_external_js gives the idx-th script.
js_filename(tag, i) ==
  IF tag.attr.form # "none" /\ HasDot(tag.attr)
  THEN sanitize_filename(tag.attr)
  ELSE Numbered("main", i + 1, "js")

\* One iteration of the loop of _process_external_js; after the last one
\* normalize goes on to _extract_inline_js.
ProcessExternalJs ==
  /\ pc = "js"
  /\ UNCHANGED << twice_vars, unit_vars, server_vars >>
  /\ IF work = <<>>
     THEN /\ pc' = "inline_js"
          /\ UNCHANGED << soup, work, idx, downloaded_urls, failed_urls, requests,
                          files, calls >>
     ELSE LET info == Head(work)
              tag == soup[info.tag]
              filename == js_filename(tag, idx)
          IN  \E resp \in Answers(info.url) :
                LET r == download_resource(Downloader, info.url, "js", filename, resp)
                IN  /\ SetDownloader(r.d)
                    /\ soup' = [soup EXCEPT ![info.tag].attr = r.path]
                    /\ calls' = Append(calls, Call("src", info.tag, info.url, "js",
                                                   filename, r, r.path))
                    /\ work' = Tail(work)
                    /\ idx' = idx + 1
                    /\ pc' = pc
  /\ UNCHANGED << root_response, page, html_content, project_created, appended,
                  css_left, cur_css, cur_fonts, css_content, fonts_found,
                  normalized_html, index_html, result >>

\* _extract_inline_js (the new <script> is appended to <body>, or to the
\* document when there is no <body>), then the extraction of the images that
\* opens _process_images.
ExtractInlineJs ==
  /\ pc = "inline_js"
  /\ UNCHANGED << twice_vars, unit_vars, server_vars >>
  /\ LET inline_scripts == extract_inline_js(soup)
     IN  IF inline_scripts = <<>>
         THEN UNCHANGED << soup, files, appended >>
         ELSE /\ files' = WriteFile(files, LocalPath("js", InlineJsName),
                                    Combined(soup, inline_scripts))
              /\ soup' = Decompose(soup, inline_scripts)
              /\ appended' = Append(appended,
                                    Elem("script", LocalPath("js", InlineJsName), <<>>, ""))
  /\ work' = extract_images(soup', BaseUrl, Domain)
  /\ idx' = 0
  /\ pc' = "images"
  /\ UNCHANGED << root_response, page, html_content, project_created,
                  downloaded_urls, failed_urls, requests, calls, css_left, cur_css,
                  cur_fonts, css_content, fonts_found, normalized_html, index_html,
                  result >>


\* The file name _process_images gives the idx-th image.
image_filename(tag, url, i) ==
  LET ext == IF get_file_extension(url) # "" THEN get_file_extension(url) ELSE "jpg"
  IN  IF tag.tag \in {"img", "script"} /\ tag.attr.form # "none" /\ HasDot(tag.attr)
      THEN sanitize_filename(tag.attr)
      ELSE Numbered("image", i + 1, ext)

\* re.sub(rf'url\(["\']?{re.escape(url)}["\']?\)', f'url({local_path})', style)
SubStyle(style, url, local_path) ==
  [k \in 1..Len(style) |-> IF style[k] = url THEN local_path ELSE style[k]]

\* What _process_images writes into the tag of an image.
UpdateImageTag(tag, url, path) ==
  IF tag.tag = "img" THEN [tag EXCEPT !.attr = path]
  ELSE IF tag.style # <<>> THEN [tag EXCEPT !.style = SubStyle(@, url, path)]
  ELSE tag

\* css_dir.glob('*.css')
GlobCss(fs) ==
  { p \in DOMAIN fs : p.segs = <<"css">> /\ p.ext = "css" /\ p.sfx = "" }

\* One iteration of the loop of _process_images; after the last one normalize
\* goes on to _process_fonts, which lists the css files.
ProcessImages ==
  /\ pc = "images"
  /\ UNCHANGED << twice_vars, unit_vars, server_vars >>
  /\ IF work = <<>>
     THEN /\ pc' = "fonts"
          /\ css_left' = GlobCss(files)
          /\ fonts_found' = <<>>
          /\ UNCHANGED << soup, work, idx, downloaded_urls, failed_urls, requests,
                          files, calls >>
     ELSE LET info == Head(work)
              tag == soup[info.tag]
              filename == image_filename(tag, info.url, idx)
          IN  \E resp \in Answers(info.url) :
                LET r == download_resource(Downloader, info.url, "images", filename, resp)
                    new == UpdateImageTag(tag, info.url, r.path)
                IN  /\ SetDownloader(r.d)
                    /\ soup' = [soup EXCEPT ![info.tag] = new]
                    /\ calls' = Append(calls,
                                       Call(IF info.site = "attr" THEN "src" ELSE "style",
                                            info.tag, info.url, "images", filename, r,
                                            IF tag.tag = "img" THEN new.attr ELSE NoRef))
                    /\ work' = Tail(work)
                    /\ idx' = idx + 1
                    /\ pc' = pc
                    /\ UNCHANGED << css_left, fonts_found >>
  /\ UNCHANGED << root_response, page, html_content, project_created, appended,
                  cur_css, cur_fonts, css_content, normalized_html, index_html,
                  result >>

\* _process_fonts, the head of the loop over the css files (in the order the
\* file system lists them): the file is read and its fonts are extracted.
\* After the last file normalize goes on to _rewrite_paths.
ProcessFontsOpen ==
  /\ pc = "fonts"
  /\ UNCHANGED << twice_vars, unit_vars, server_vars >>
  /\ cur_fonts = <<>>
  /\ IF css_left = {}
     THEN /\ pc' = "rewrite"
          /\ UNCHANGED << css_left, cur_css, cur_fonts, css_content >>
     ELSE \E css_file \in css_left :
            /\ css_left' = css_left \ {css_file}
            /\ cur_css' = css_file
            /\ css_content' = files[css_file]
            /\ cur_fonts' = extract_fonts_from_css(files[css_file].urls, BaseUrl, Domain)
            /\ pc' = pc
  /\ UNCHANGED << root_response, page, html_content, project_created, soup,
                  appended, work, idx, downloaded_urls, failed_urls, requests,
                  files, calls, fonts_found, normalized_html, index_html, result >>

\* The file name _process_fonts gives a font, found is fonts_found with the
\* font appended.
font_filename(font_url, found) ==
  IF get_file_extension(font_url) # ""
  THEN Numbered("font", Len(found), get_file_extension(font_url))
  ELSE DefaultFontName

\* css_content.replace(font_url, new): the occurrences whose text is the
\* absolute URL.
ReplaceUrl(content, font_url, new) ==
  [content EXCEPT !.urls =
     [k \in 1..Len(@) |-> IF @[k].raw = font_url THEN [@[k] EXCEPT !.raw = new]
                          ELSE @[k]]]

IsIn(x, seq) == \E k \in 1..Len(seq) : seq[k] = x

\* _process_fonts, one iteration of the loop over font_urls; after the last
\* font of the file the text is written back (font_urls is not empty).
ProcessFontsUrl ==
  /\ pc = "fonts"
  /\ UNCHANGED << twice_vars, unit_vars, server_vars >>
  /\ cur_fonts # <<>>
  /\ LET font_url == Head(cur_fonts)
         last == Tail(cur_fonts) = <<>>
     IN  IF IsIn(font_url, fonts_found)
         THEN /\ files' = IF last THEN WriteFile(files, cur_css, css_content) ELSE files
              /\ UNCHANGED << downloaded_urls, failed_urls, requests, calls,
                              fonts_found, css_content >>
         ELSE LET found == Append(fonts_found, font_url)
                  filename == font_filename(font_url, found)
              IN  \E resp \in Answers(font_url) :
                    LET r == download_resource(Downloader, font_url, "fonts", filename, resp)
                        text == ReplaceUrl(css_content, font_url, UpFontsPath(r.path))
                    IN  /\ downloaded_urls' = r.d.downloaded_urls
                        /\ failed_urls' = r.d.failed_urls
                        /\ requests' = r.d.requests
                        /\ files' = IF last THEN WriteFile(r.d.files, cur_css, text)
                                    ELSE r.d.files
                        /\ fonts_found' = found
                        /\ css_content' = text
                        /\ calls' = Append(calls, Call("css", 0, font_url, "fonts",
                                                       filename, r, NoRef))
  /\ cur_fonts' = Tail(cur_fonts)
  /\ UNCHANGED << pc, root_response, page, html_content, project_created, soup,
                  appended, work, idx, css_left, cur_css, normalized_html,
                  index_html, result >>

\* href.startswith('http') / src.startswith('http')
StartsWithHttp(s) == s.form = "abs" /\ s.scheme \in {"http", "https"}

\* What _rewrite_paths does to one tag.
RewriteTag(tag, domain) ==
  IF tag.removed \/ tag.attr.form = "none" \/ ~StartsWithHttp(tag.attr)
     \/ is_same_domain(tag.attr, domain)
  THEN tag
  ELSE CASE tag.tag \in {"link", "script"} -> [tag EXCEPT !.removed = TRUE]
         [] tag.tag = "img" -> [tag EXCEPT !.attr = LocalPath("images", PlaceholderName)]
         [] OTHER -> tag

\* _rewrite_paths: str(soup), the tags of the page and the appended ones.
RewritePaths ==
  /\ pc = "rewrite"
  /\ UNCHANGED << twice_vars, unit_vars, server_vars >>
  /\ soup' = [i \in 1..Len(soup) |-> RewriteTag(soup[i], Domain)]
  /\ appended' = [i \in 1..Len(appended) |-> RewriteTag(appended[i], Domain)]
  /\ normalized_html' = soup' \o appended'
  /\ pc' = "save"
  /\ UNCHANGED << root_response, page, html_content, project_created, work, idx,
                  downloaded_urls, failed_urls, requests, files, calls, css_left,
                  cur_css, cur_fonts, css_content, fonts_found, index_html, result >>

\* main.py steps 5 and 6: index.html is written and normalize returns True.
SaveIndex ==
  /\ pc = "save"
  /\ UNCHANGED << twice_vars, unit_vars, server_vars >>
  /\ index_html' = normalized_html
  /\ result' = "True"
  /\ pc' = "done"
  /\ UNCHANGED << root_response, page, html_content, project_created, soup,
                  appended, work, idx, downloaded_urls, failed_urls, requests,
                  files, calls, css_left, cur_css, cur_fonts, css_content,
                  fonts_found, normalized_html >>

Next ==
  \/ DownloadHtml
  \/ CreateProjectStructure
  \/ ProcessExternalCss
  \/ ExtractInlineCss
  \/ ProcessExternalJs
  \/ ExtractInlineJs
  \/ ProcessImages
  \/ ProcessFontsOpen
  \/ ProcessFontsUrl
  \/ RewritePaths
  \/ SaveIndex

Spec == Init /\ [][Next]_vars


\* ------------------------------------------------------------ two runs
\* The local paths the download_resource calls of a run returned, in order.
PathsOf(cs) == [c \in 1..Len(cs) |-> cs[c].path]

\* WebsiteNormalizer(url).normalize() is called a second time for the same
\* URL: new WebsiteNormalizer, ResourceDownloader and StructureNormalizer
\* objects, the same project directory with the files of the first run in
\* it (create_project_structure: mkdir(parents=True, exist_ok=True)).
RunAgain ==
  /\ pc = "done"
  /\ run = 1
  /\ run' = 2
  /\ first' = [index_html |-> index_html, files |-> files, paths |-> PathsOf(calls),
               result |-> result]
  /\ pc' = "start"
  /\ html_content' = <<>>
  /\ project_created' = FALSE
  /\ soup' = <<>>
  /\ appended' = <<>>
  /\ work' = <<>>
  /\ idx' = 0
  /\ downloaded_urls' = {}
  /\ failed_urls' = <<>>
  /\ requests' = <<>>
  /\ calls' = <<>>
  /\ css_left' = {}
  /\ cur_css' = NoRef
  /\ cur_fonts' = <<>>
  /\ css_content' = <<>>
  /\ fonts_found' = <<>>
  /\ normalized_html' = <<>>
  /\ result' = "none"
  /\ UNCHANGED << root_response, page, files, index_html, mock, unit_vars, server_vars >>

RECURSIVE SeqsOver(_, _)
SeqsOver(E, k) ==
  IF k = 0 THEN {<<>>}
  ELSE LET shorter == SeqsOver(E, k - 1)
       IN  shorter \cup { Append(q, e) : q \in shorter, e \in E }

\* The pages that are normalized twice: stylesheet links to /s.css and /style.
TwicePages ==
  SeqsOver({ Elem("link", Ref("rootrel", "", "", <<>>, "s", "css", ""), <<>>, ""),
             Elem("link", Ref("rootrel", "", "", <<>>, "style", "", ""), <<>>, "") },
           MaxElemsTwice) \ {<<>>}

\* The URLs those pages and their stylesheets lead to, and the mocks: one
\* response for each of them.
MockUrls ==
  { Ref("abs", "https", Domain, <<>>, "s", "css", ""),
    Ref("abs", "https", Domain, <<>>, "style", "", ""),
    FontUrl }

Mocks ==
  { m \in [MockUrls -> UNION { Responses(u) : u \in MockUrls }] :
      \A u \in MockUrls : m[u] \in Responses(u) }

InitTwice ==
  /\ NormInit("start", TwicePages)
  /\ run = 1 /\ first = NoFirst /\ mock \in Mocks
  /\ NoCall /\ NoServer

NextTwice == Next \/ RunAgain

SpecTwice == InitTwice /\ [][NextTwice]_vars


\* -------------------------------------------------- functions of utils.py
\* The hosts and URLs is_same_domain is called with.
UnitHosts == {"ex.com", "cdn.ex.com", "ex.com:8080", "other.com"}

UnitUrls ==
  {Ref("abs", sch, h, <<>>, "x", "png", "") : sch \in {"http", "https"}, h \in UnitHosts}
    \cup {Ref("protorel", "", h, <<>>, "x", "png", "") : h \in UnitHosts}
    \cup {Ref("rootrel", "", "", <<>>, "x", "png", ""),
          Ref("rel", "", "", <<>>, "x", "png", ""),
          Ref("opaque", "data", "", <<>>, "x", "png", "")}

\* How often the function is called with the same arguments.
MaxCalls == 2

\* is_same_domain(url, domain) is called once more with the arguments of
\* fn_arg; fn_ret collects the values it returned.
CallIsSameDomain ==
  /\ pc = "off"
  /\ Len(fn_ret) < MaxCalls
  /\ fn_ret' = Append(fn_ret, is_same_domain(fn_arg[1], fn_arg[2]))
  /\ UNCHANGED << fn_arg, norm_vars, twice_vars, server_vars >>

InitUnit ==
  /\ NormInit("off", {<<>>})
  /\ OneRun
  /\ NoServer
  /\ fn_arg \in UnitUrls \X UnitHosts
  /\ fn_ret = <<>>

NextUnit == CallIsSameDomain

SpecUnit == InitUnit /\ [][NextUnit]_vars


\* ------------------------------------------------- front-end of server.py
\* The front-end serves POST requests one at a time and starts one daemon
\* thread per request; thread t runs _clone_website_async for the t-th
\* request.  cl_pc[t] is the statement thread t is at, cl_disk the files that
\* exist under cloned_sites/, writers[f] the threads that hold file f open
\* for writing, cl_log[t] what thread t has done so far: "get" for a resource
\* request that has been answered, "index" for index.html written.
\* The site has one stylesheet, /s.css, which holds one url(...).

\* The statements at which a thread is inside WebsiteCloner.clone.
Cloning ==
  {"root", "open_index", "write_index", "resources", "open_css", "write_css",
   "css_pass", "css_urls", "reopen_css", "rewrite_css"}

Goto(t, at) == cl_pc' = [cl_pc EXCEPT ![t] = at]

Log(t, what) == cl_log' = [cl_log EXCEPT ![t] = Append(@, what)]

\* open(f, 'w') by thread t: the file exists (empty) from now on.
OpenForWriting(t, f) ==
  /\ writers' = [writers EXCEPT ![f] = @ \cup {t}]
  /\ cl_disk' = cl_disk \cup {f}

\* The end of the with block: the text is written and the file is closed.
CloseFile(t, f) ==
  /\ writers' = [writers EXCEPT ![f] = @ \ {t}]
  /\ UNCHANGED cl_disk

\* RequestHandler.do_POST: a request without a URL is answered 400, any other
\* request starts a thread and is answered at once.
DoPost(t) ==
  /\ pc = "off"
  /\ cl_pc[t] = "idle"
  /\ \A u \in Threads : u < t => cl_pc[u] # "idle"
  /\ \E url \in {"", Domain} :
        Goto(t, IF url = "" THEN "rejected" ELSE "root")
  /\ UNCHANGED << cl_disk, writers, cl_log, norm_vars, twice_vars, unit_vars >>

\* WebsiteCloner.clone: GET of the page.  An error is raised to
\* _clone_website_async, which logs it and builds no archive.
CloneGetRoot(t) ==
  /\ pc = "off"
  /\ cl_pc[t] = "root"
  /\ \E r \in {"error", "html", "other"} :
        Goto(t, CASE r = "error" -> "failed"
                  [] r = "html"  -> "open_index"
                  [] OTHER       -> "open_index_raw")
  /\ UNCHANGED << cl_disk, writers, cl_log, norm_vars, twice_vars, unit_vars >>

\* clone: open(index_path, 'w') or open(file_path, 'wb').
CloneOpenIndex(t) ==
  /\ pc = "off"
  /\ cl_pc[t] \in {"open_index", "open_index_raw"}
  /\ OpenForWriting(t, "index.html")
  /\ Goto(t, IF cl_pc[t] = "open_index" THEN "write_index" ELSE "write_index_raw")
  /\ UNCHANGED << cl_log, norm_vars, twice_vars, unit_vars >>

\* clone: f.write(html_content); _download_resources follows for an HTML
\* page, _download_css_files for any other content.
CloneWriteIndex(t) ==
  /\ pc = "off"
  /\ cl_pc[t] \in {"write_index", "write_index_raw"}
  /\ CloseFile(t, "index.html")
  /\ Log(t, "index")
  /\ Goto(t, IF cl_pc[t] = "write_index" THEN "resources" ELSE "css_pass")
  /\ UNCHANGED << norm_vars, twice_vars, unit_vars >>

\* _download_resources, _download_file: GET of the stylesheet of the page.
DownloadResources(t) ==
  /\ pc = "off"
  /\ cl_pc[t] = "resources"
  /\ Log(t, "get")
  /\ \E resp \in {"ok", "failed"} :
        Goto(t, IF resp = "ok" THEN "open_css" ELSE "css_pass")
  /\ UNCHANGED << cl_disk, writers, norm_vars, twice_vars, unit_vars >>

\* _download_file: open(file_path, 'w').
DownloadOpenFile(t) ==
  /\ pc = "off"
  /\ cl_pc[t] = "open_css"
  /\ OpenForWriting(t, "s.css")
  /\ Goto(t, "write_css")
  /\ UNCHANGED << cl_log, norm_vars, twice_vars, unit_vars >>

\* _download_file: f.write(response.text).
DownloadWriteFile(t) ==
  /\ pc = "off"
  /\ cl_pc[t] = "write_css"
  /\ CloseFile(t, "s.css")
  /\ Goto(t, "css_pass")
  /\ UNCHANGED << cl_log, norm_vars, twice_vars, unit_vars >>

\* _download_css_files: output_dir.rglob('*.css') lists the stylesheets that
\* exist now, whichever thread stored them; the file is read.
DownloadCssFiles(t) ==
  /\ pc = "off"
  /\ cl_pc[t] = "css_pass"
  /\ Goto(t, IF "s.css" \in cl_disk THEN "css_urls" ELSE "zip")
  /\ UNCHANGED << cl_disk, writers, cl_log, norm_vars, twice_vars, unit_vars >>

\* _download_css_files: GET of the resource the url(...) of the stylesheet
\* names.
DownloadCssUrls(t) ==
  /\ pc = "off"
  /\ cl_pc[t] = "css_urls"
  /\ Log(t, "get")
  /\ Goto(t, "reopen_css")
  /\ UNCHANGED << cl_disk, writers, norm_vars, twice_vars, unit_vars >>

\* _download_css_files: open(css_file, 'w').
CssReopen(t) ==
  /\ pc = "off"
  /\ cl_pc[t] = "reopen_css"
  /\ OpenForWriting(t, "s.css")
  /\ Goto(t, "rewrite_css")
  /\ UNCHANGED << cl_log, norm_vars, twice_vars, unit_vars >>

\* _download_css_files: f.write(css_content); clone returns True.
CssRewrite(t) ==
  /\ pc = "off"
  /\ cl_pc[t] = "rewrite_css"
  /\ CloseFile(t, "s.css")
  /\ Goto(t, "zip")
  /\ UNCHANGED << cl_log, norm_vars, twice_vars, unit_vars >>

\* create_zip_archive: zipfile.ZipFile(zip_path, 'w').
ZipOpen(t) ==
  /\ pc = "off"
  /\ cl_pc[t] = "zip"
  /\ OpenForWriting(t, "zip")
  /\ Goto(t, "zip_walk")
  /\ UNCHANGED << cl_log, norm_vars, twice_vars, unit_vars >>

\* create_zip_archive: os.walk(source_dir) adds the files of the folder, the
\* archive is closed.
ZipWalk(t) ==
  /\ pc = "off"
  /\ cl_pc[t] = "zip_walk"
  /\ CloseFile(t, "zip")
  /\ Goto(t, "done")
  /\ UNCHANGED << cl_log, norm_vars, twice_vars, unit_vars >>

InitServer == NormInit("off", {<<>>}) /\ OneRun /\ NoCall /\ NoServer

NextServer ==
  \E t \in Threads :
    \/ DoPost(t)
    \/ CloneGetRoot(t)
    \/ CloneOpenIndex(t)
    \/ CloneWriteIndex(t)
    \/ DownloadResources(t)
    \/ DownloadOpenFile(t)
    \/ DownloadWriteFile(t)
    \/ DownloadCssFiles(t)
    \/ DownloadCssUrls(t)
    \/ CssReopen(t)
    \/ CssRewrite(t)
    \/ ZipOpen(t)
    \/ ZipWalk(t)

SpecServer == InitServer /\ [][NextServer]_vars


\* ----------------------------------------------------- downloader alone
\* One ResourceDownloader that is called directly: any sequence of
\* download_file and download_resource calls, each answered by the transport
\* as it likes.  calls is the history of the calls.
MaxDownloads == 3

DlUrls ==
  { Ref("abs", "https", Domain, <<>>, "s", "css", ""),
    Ref("abs", "https", Domain, <<>>, "pic", "jpg", "") }

DlNames ==
  { [stem |-> "s", n |-> 0, ext |-> "css", sfx |-> ""],
    [stem |-> "main", n |-> 1, ext |-> "css", sfx |-> ""] }

\* What a call meets: the answers of the transport, or open(file_path) raising
\* OSError after the request was answered.
DlResponses(url) ==
  Responses(url) \cup { [ok |-> FALSE, err |-> "OSError", body |-> <<>>] }

\* ResourceDownloader.get_failed_urls()
get_failed_urls(d) == d.failed_urls

\* ResourceDownloader.get_downloaded_count()
get_downloaded_count(d) == Cardinality(d.downloaded_urls)

DlCall(via, url, file_path, ret, fetch) ==
  [via |-> via, url |-> url, file_path |-> file_path, ret |-> ret, fetch |-> fetch]

\* downloader.download_file(url, file_path)
CallDownloadFile ==
  /\ pc = "downloader"
  /\ Len(calls) < MaxDownloads
  /\ \E url \in DlUrls, name \in DlNames :
       \E resp \in DlResponses(url) :
         LET file_path == LocalPath("css", name)
             r == download_file(Downloader, url, file_path, resp)
         IN  /\ SetDownloader(r.d)
             /\ calls' = Append(calls, DlCall("download_file", url, file_path,
                                             r.ret, r.fetch))
  /\ UNCHANGED << pc, root_response, page, html_content, project_created, soup,
                  appended, work, idx, css_left, cur_css, cur_fonts,
                  css_content, fonts_found, normalized_html, index_html, result >>
  /\ UNCHANGED << twice_vars, unit_vars, server_vars >>

\* downloader.download_resource(url, output_dir, 'css', filename): the value
\* of download_file is dropped, the path is returned.
CallDownloadResource ==
  /\ pc = "downloader"
  /\ Len(calls) < MaxDownloads
  /\ \E url \in DlUrls, name \in DlNames :
       \E resp \in DlResponses(url) :
         LET r == download_resource(Downloader, url, "css", name, resp)
         IN  /\ SetDownloader(r.d)
             /\ calls' = Append(calls, DlCall("download_resource", url, r.path,
                                             r.fetch # "failed", r.fetch))
  /\ UNCHANGED << pc, root_response, page, html_content, project_created, soup,
                  appended, work, idx, css_left, cur_css, cur_fonts,
                  css_content, fonts_found, normalized_html, index_html, result >>
  /\ UNCHANGED << twice_vars, unit_vars, server_vars >>

InitDownloader == NormInit("downloader", {<<>>}) /\ OneRun /\ NoCall /\ NoServer

NextDownloader == CallDownloadFile \/ CallDownloadResource

SpecDownloader == InitDownloader /\ [][NextDownloader]_vars


\* ------------------------------------------------- text or binary storage
\* The values of the Content-Type header of a response; "" is the value
\* headers.get('Content-Type', '') gives for an absent header.
ContentTypes ==
  {"", "text/css", "Text/HTML; charset=utf-8", "application/javascript",
   "application/json", "image/png", "image/svg+xml", "font/woff2",
   "application/octet-stream"}

\* The markers that are substrings of content_type.lower().
MarkersIn(content_type) ==
  CASE content_type = "text/css"                 -> {"text", "css"}
    [] content_type = "Text/HTML; charset=utf-8" -> {"text", "html"}
    [] content_type = "application/javascript"   -> {"javascript"}
    [] content_type = "application/json"         -> {"json"}
    [] OTHER                                     -> {}

\* ResourceDownloader.download_file: the mode of open(file_path, ...).
downloader_mode(content_type) ==
  IF MarkersIn(content_type) \cap {"text", "html", "css", "javascript", "json"} # {}
  THEN "w" ELSE "wb"

\* WebsiteCloner._download_file: the mode of open(file_path, ...).
cloner_mode(content_type) ==
  IF \/ "text" \in MarkersIn(content_type)
     \/ "html" \in MarkersIn(content_type)
     \/ "css" \in MarkersIn(content_type)
     \/ "javascript" \in MarkersIn(content_type)
  THEN "w" ELSE "wb"

Stored(by) == Len(SelectSeq(fn_ret, LAMBDA r : r.by = by))

\* A response with the content type of fn_arg is stored by download_file.
StoreByDownloader ==
  /\ pc = "store"
  /\ Stored("ResourceDownloader") < MaxCalls
  /\ fn_ret' = Append(fn_ret, [by |-> "ResourceDownloader",
                               mode |-> downloader_mode(fn_arg[1])])
  /\ UNCHANGED << fn_arg, norm_vars, twice_vars, server_vars >>

\* A response with the content type of fn_arg is stored by _download_file.
StoreByCloner ==
  /\ pc = "store"
  /\ Stored("WebsiteCloner") < MaxCalls
  /\ fn_ret' = Append(fn_ret, [by |-> "WebsiteCloner",
                               mode |-> cloner_mode(fn_arg[1])])
  /\ UNCHANGED << fn_arg, norm_vars, twice_vars, server_vars >>

InitStore ==
  /\ NormInit("store", {<<>>})
  /\ OneRun
  /\ NoServer
  /\ fn_arg \in {<<ct>> : ct \in ContentTypes}
  /\ fn_ret = <<>>

NextStore == StoreByDownloader \/ StoreByCloner

SpecStore == InitStore /\ [][NextStore]_vars


\* ------------------------------------------- further kinds of reference
\* The normalizer on pages made of references of further kinds:
\*   <link rel="stylesheet" href="/s.css">
\*   <img src="pic.jpg" style="background:url(bg.png)">
\*   <img src="/v1.2/pic">
\*   <script src="https://other.com/x.js">, <script src="//other.com/x.js">
\*   <img src="https://other.com/x.png">, <img src="//other.com/x.png">
MaxElemsRefs == 2

RefElements ==
  { Elem("link", Ref("rootrel", "", "", <<>>, "s", "css", ""), <<>>, ""),
    Elem("img", Ref("rel", "", "", <<>>, "pic", "jpg", ""),
         <<Ref("rel", "", "", <<>>, "bg", "png", "")>>, ""),
    Elem("img", Ref("rootrel", "", "", <<"v1.2">>, "pic", "", ""), <<>>, ""),
    Elem("script", Ref("abs", "https", OtherHost, <<>>, "x", "js", ""), <<>>, ""),
    Elem("script", Ref("protorel", "", OtherHost, <<>>, "x", "js", ""), <<>>, ""),
    Elem("img", Ref("abs", "https", OtherHost, <<>>, "x", "png", ""), <<>>, ""),
    Elem("img", Ref("protorel", "", OtherHost, <<>>, "x", "png", ""), <<>>, "") }

RefPages == SeqsOver(RefElements, MaxElemsRefs) \ {<<>>}

InitRefs == NormInit("start", RefPages) /\ OneRun /\ NoCall /\ NoServer

SpecRefs == InitRefs /\ [][Next]_vars


\* ------------------------------------------------- WebsiteCloner.clone
\* One run of WebsiteCloner(url, output_dir).clone() of server.py.  The
\* cloner keeps its own downloaded_urls and failed_urls; requests, files and
\* calls are the history of the run as above, the paths of files relative to
\* output_dir.  fn_arg is <<url>>, the URL the cloner was made for.  The
\* pages are made of <link rel="stylesheet"> elements, and the stylesheets of
\* the site hold at most one url(...).
MaxElemsCloner == 2

\* self.url: https://ex.com and https://ex.com/blog/post.
ClonerUrls ==
  { BaseUrl, Ref("abs", "https", Domain, <<"blog">>, "post", "", "") }

\* href: /css/s.css, s.css, https://ex.com/../../x.css, https://other.com/x.css.
ClonerHrefs ==
  { Ref("rootrel", "", "", <<"css">>, "s", "css", ""),
    Ref("rel", "", "", <<>>, "s", "css", ""),
    Ref("abs", "https", Domain, <<"..", "..">>, "x", "css", ""),
    Ref("abs", "https", OtherHost, <<>>, "x", "css", "") }

ClonerPages ==
  SeqsOver({ Elem("link", h, <<>>, "") : h \in ClonerHrefs }, MaxElemsCloner) \ {<<>>}

\* The bodies of the stylesheets: no url(...), url(img/bg.png) and
\* url(https://ex.com/../../f.woff).
ClonerBodies ==
  { <<>>,
    << Occ(Ref("rel", "", "", <<"img">>, "bg", "png", ""), FALSE) >>,
    << Occ(Ref("abs", "https", Domain, <<"..", "..">>, "f", "woff", ""), FALSE) >> }

\* What session.get(url) can answer.
ClonerResponses(url) ==
  { [ok |-> FALSE, err |-> "TransportError", body |-> <<>>] }
    \cup { [ok |-> TRUE, err |-> "", body |-> b] :
             b \in IF url.ext = "css" THEN ClonerBodies ELSE {<<>>} }

\* url.split('?')[0].split('#')[0]
WithoutQuery(url) == [url EXCEPT !.q = ""]

\* WebsiteCloner._should_download
should_download(url, downloaded, domain) ==
  /\ is_same_domain(url, domain)
  /\ url \notin downloaded
  /\ url.form # "opaque"

\* WebsiteCloner._url_to_local_path: the path of the resolved URL without its
\* leading "/", "index.html" for an empty path, ".html" added to a name
\* without ".".
url_to_local_path(url, base_url) ==
  LET absolute_url == resolve_url(url, base_url)
  IN  IF absolute_url.segs = <<>> /\ absolute_url.stem = "" /\ absolute_url.ext = ""
      THEN Ref("rel", "", "", <<>>, "index", "html", "")
      ELSE Ref("rel", "", "", absolute_url.segs, absolute_url.stem,
               IF absolute_url.ext = "" THEN "html" ELSE absolute_url.ext, "")

\* WebsiteCloner._rewrite_urls_in_html: the href of every link that is to be
\* downloaded becomes its local path.
rewrite_urls_in_html(html, base_url, downloaded, domain) ==
  [i \in 1..Len(html) |->
     IF should_download(resolve_url(html[i].attr, base_url), downloaded, domain)
     THEN [html[i] EXCEPT !.attr = url_to_local_path(html[i].attr, base_url)]
     ELSE html[i]]

\* WebsiteCloner._rewrite_css_urls: a url(...) whose resource is to be
\* downloaded becomes url(local path), any other is left as it is.
rewrite_css_urls(urls, base_url, downloaded, domain) ==
  [k \in 1..Len(urls) |->
     IF should_download(resolve_url(urls[k].raw, base_url), downloaded, domain)
     THEN [urls[k] EXCEPT !.raw = url_to_local_path(urls[k].raw, base_url)]
     ELSE urls[k]]

\* _download_resources: output_dir / parsed.path.lstrip('/'), with ".css"
\* added to a name without suffix.
stylesheet_file_path(url) ==
  Ref("rel", "", "", url.segs, url.stem, IF url.ext = "" THEN "css" ELSE url.ext, "")

\* _download_css_files: css_dir_url, the URL of the directory the stored
\* stylesheet lies in.
css_dir_url(css_file) == Ref("abs", "https", Domain, css_file.segs, "", "", "")

\* _download_css_files: css_file.parent / parsed.path.lstrip('/').
resource_path(css_file, absolute_url) ==
  Ref("rel", "", "", css_file.segs \o absolute_url.segs, absolute_url.stem,
      absolute_url.ext, "")

\* output_dir.rglob('*.css')
RglobCss(fs) == { f \in DOMAIN fs : f.ext = "css" /\ f.sfx = "" }

\* WebsiteCloner._download_file(url, file_path) when session.get(url)
\* answers resp.
cloner_download_file(d, url, file_path, resp) ==
  IF url \in d.downloaded_urls
  THEN [d |-> d, ret |-> TRUE, fetch |-> "skip"]
  ELSE IF resp.ok
       THEN [d |-> [d EXCEPT !.requests = Append(@, url),
                             !.files = WriteFile(@, file_path, Fetched(url, resp.body)),
                             !.downloaded_urls = @ \cup {url}],
             ret |-> TRUE, fetch |-> "ok"]
       ELSE [d |-> [d EXCEPT !.requests = Append(@, url),
                             !.failed_urls = Append(@, <<url, resp.err>>)],
             ret |-> FALSE, fetch |-> "failed"]

\* One line of the history of _download_file calls: the element of the page
\* (html) or the stylesheet (css) the URL was found in.
ClonerCall(site, tag, css, url, file_path, fetch) ==
  [site |-> site, tag |-> tag, css |-> css, url |-> url, path |-> file_path,
   fetch |-> fetch]

\* clone: the page is requested; an error is raised to the caller.  The HTML
\* is rewritten and written to index.html, then _download_resources starts.
ClonerGetPage ==
  /\ pc = "cloner"
  /\ \E r \in {"error", "html"} :
       IF r = "error"
       THEN /\ result' = "error"
            /\ pc' = "cloner_done"
            /\ UNCHANGED << soup, index_html, work >>
       ELSE /\ soup' = rewrite_urls_in_html(page, fn_arg[1], downloaded_urls, Domain)
            /\ index_html' = soup'
            /\ work' = [i \in 1..Len(page) |-> i]
            /\ pc' = "cloner_resources"
            /\ UNCHANGED result
  /\ UNCHANGED << root_response, page, html_content, project_created, appended,
                  idx, downloaded_urls, failed_urls, requests, files, calls,
                  css_left, cur_css, cur_fonts, css_content, fonts_found,
                  normalized_html >>
  /\ UNCHANGED << twice_vars, unit_vars, server_vars >>

\* _download_resources: one <link rel="stylesheet"> of the HTML it was given;
\* after the last one _download_css_files lists the stylesheets on disk.
ClonerDownloadResources ==
  /\ pc = "cloner_resources"
  /\ IF work = <<>>
     THEN /\ css_left' = RglobCss(files)
          /\ pc' = "cloner_css"
          /\ UNCHANGED << work, downloaded_urls, failed_urls, requests, files, calls >>
     ELSE LET i == Head(work)
              url == WithoutQuery(resolve_url(soup[i].attr, fn_arg[1]))
          IN  /\ work' = Tail(work)
              /\ pc' = pc
              /\ css_left' = css_left
              /\ IF should_download(url, downloaded_urls, Domain)
                 THEN \E resp \in ClonerResponses(url) :
                        LET file_path == stylesheet_file_path(url)
                            r == cloner_download_file(Downloader, url, file_path, resp)
                        IN  /\ SetDownloader(r.d)
                            /\ calls' = Append(calls, ClonerCall("html", i, NoRef, url,
                                                                 file_path, r.fetch))
                 ELSE UNCHANGED << downloaded_urls, failed_urls, requests, files, calls >>
  /\ UNCHANGED << root_response, page, html_content, project_created, soup,
                  appended, idx, cur_css, cur_fonts, css_content, fonts_found,
                  normalized_html, index_html, result >>
  /\ UNCHANGED << twice_vars, unit_vars, server_vars >>

\* _download_css_files, one stylesheet of the listing (in the order the file
\* system gives): the resource of its url(...) is downloaded, the text is
\* rewritten and written back.  After the last stylesheet clone returns True.
ClonerDownloadCssFiles ==
  /\ pc = "cloner_css"
  /\ IF css_left = {}
     THEN /\ result' = "True"
          /\ pc' = "cloner_done"
          /\ UNCHANGED << downloaded_urls, failed_urls, requests, files, calls, css_left >>
     ELSE \E css_file \in css_left :
            LET base == css_dir_url(css_file)
                urls == files[css_file].urls
                absolute_url == WithoutQuery(resolve_url(urls[1].raw, base))
                path == resource_path(css_file, absolute_url)
                Rewritten(d) ==
                  [d EXCEPT !.files[css_file].urls =
                     rewrite_css_urls(urls, base, d.downloaded_urls, Domain)]
            IN  /\ css_left' = css_left \ {css_file}
                /\ UNCHANGED << result, pc >>
                /\ IF urls # <<>> /\ should_download(absolute_url, downloaded_urls, Domain)
                   THEN \E resp \in ClonerResponses(absolute_url) :
                          LET r == cloner_download_file(Downloader, absolute_url, path, resp)
                          IN  /\ SetDownloader(Rewritten(r.d))
                              /\ calls' = Append(calls, ClonerCall("css", 0, css_file,
                                                                   absolute_url, path, r.fetch))
                   ELSE /\ SetDownloader(Rewritten(Downloader))
                        /\ UNCHANGED calls
  /\ UNCHANGED << root_response, page, html_content, project_created, soup,
                  appended, work, idx, cur_css, cur_fonts, css_content, fonts_found,
                  normalized_html, index_html >>
  /\ UNCHANGED << twice_vars, unit_vars, server_vars >>

InitCloner ==
  /\ NormInit("cloner", ClonerPages)
  /\ OneRun
  /\ NoServer
  /\ fn_arg \in {<<u>> : u \in ClonerUrls}
  /\ fn_ret = <<>>

NextCloner == ClonerGetPage \/ ClonerDownloadResources \/ ClonerDownloadCssFiles

SpecCloner == InitCloner /\ [][NextCloner]_vars


\* ------------------------------------------------------------- claims
Http(url) == url.scheme \in {"http", "https"}

\* The URL a reference of the page resolves to.
Resolved(raw) == resolve_url(raw, BaseUrl)

\* The calls download_resource got for an href or src attribute.
AttrCalls == { i \in 1..Len(calls) : calls[i].site \in {"href", "src"} }

\* C1: within one run at most one HTTP request is issued per distinct
\* absolute URL, also for a URL whose fetch failed.
C1_AtMostOneRequestPerUrl ==
  \A i, j \in 1..Len(requests) :
    (Http(requests[i]) /\ requests[i] = requests[j]) => i = j

\* C2: two references (link href, script src, img src) that resolve to the
\* same absolute URL get the same local path written into their attributes.
C2_SameUrlSamePath ==
  \A i, j \in AttrCalls :
    calls[i].url = calls[j].url => calls[i].attr = calls[j].attr

\* C3: two distinct absolute URLs of one category are assigned two distinct
\* local paths, so no local path receives the content of more than one URL.
C3_DistinctUrlsDistinctPaths ==
  \A i, j \in 1..Len(calls) :
    (calls[i].subfolder = calls[j].subfolder /\ calls[i].url # calls[j].url)
      => calls[i].path # calls[j].path

\* The folder _process_external_css / _js / _images store a tag's resource in.
FolderOf(tag) ==
  CASE tag = "link" -> "css" [] tag = "script" -> "js" [] OTHER -> "images"

\* C4: the path download_resource returns does not depend on the outcome of
\* the fetch (two calls with the same subfolder and file name return the same
\* path whatever their fetches did), the referencing attribute is rewritten
\* to that path after a failed fetch as after a successful one, and at the
\* end of the run every same-origin link, script and img points into its
\* local folder, never at a remote URL.
C4_PathIndependentOfOutcome ==
  /\ \A i, j \in AttrCalls :
       (calls[i].subfolder = calls[j].subfolder /\ calls[i].filename = calls[j].filename)
         => calls[i].path = calls[j].path
  /\ \A i \in AttrCalls :
       /\ calls[i].attr = calls[i].path
       /\ calls[i].path.form = "rel"
       /\ calls[i].path.segs = <<calls[i].subfolder>>
  /\ pc = "done" /\ result = "True" =>
       \A i \in 1..Len(page) :
         (page[i].tag \in {"link", "script", "img"} /\ netloc(Resolved(page[i].attr)) = Domain)
           => /\ index_html[i].attr.form = "rel"
              /\ index_html[i].attr.segs = <<FolderOf(page[i].tag)>>

\* C4, its case: the run has ended, and two calls with the same subfolder
\* and file name were made, one whose fetch failed and one whose fetch
\* succeeded.
C4_Witness ==
  /\ pc = "done" /\ result = "True"
  /\ \E i, j \in AttrCalls :
       /\ calls[i].fetch = "failed" /\ calls[j].fetch = "ok"
       /\ calls[i].subfolder = calls[j].subfolder
       /\ calls[i].filename = calls[j].filename

\* The page holds nothing but same-origin stylesheet links, and their URLs
\* are pairwise distinct.
OnlyDistinctLinks ==
  /\ \A i \in 1..Len(page) :
       page[i].tag = "link" /\ netloc(Resolved(page[i].attr)) = Domain
  /\ \A i, j \in 1..Len(page) :
       Resolved(page[i].attr) = Resolved(page[j].attr) => i = j

\* C5: for a page of N same-origin stylesheet links with pairwise distinct
\* URLs, whatever subset fails, the run completes with success, all N links
\* are rewritten to css/ paths, and get_failed_urls() holds exactly the URLs
\* whose fetch failed, each once, with its error reason.
C5_FailureIsolation ==
  (pc = "done" /\ root_response = "page" /\ OnlyDistinctLinks) =>
    /\ result = "True"
    /\ \A i \in 1..Len(page) :
         index_html[i].attr.form = "rel" /\ index_html[i].attr.segs = <<"css">>
    /\ { failed_urls[k][1] : k \in 1..Len(failed_urls) }
         = { calls[i].url : i \in { c \in 1..Len(calls) : calls[c].fetch = "failed" } }
    /\ \A k, l \in 1..Len(failed_urls) :
         failed_urls[k][1] = failed_urls[l][1] => k = l
    /\ \A k \in 1..Len(failed_urls) : failed_urls[k][2] = "TransportError"

\* C6: when the page cannot be fetched the run returns False without any
\* resource fetch, without the project structure and without index.html;
\* and it returns False only when the fetch of the page failed.
C6_RootFailureOnly ==
  pc = "done" =>
    /\ root_response = "error" =>
         /\ result = "False"
         /\ requests = <<>>
         /\ ~project_created
         /\ index_html = <<>>
    /\ result = "False" => root_response = "error"

\* C7: every URL handed to the transport for a resource has a host equal to
\* the site domain.
C7_OnlySiteHostFetched ==
  \A k \in 1..Len(requests) : netloc(requests[k]) = Domain

\* C8: for a reference with a non-fetchable scheme (data:, javascript:,
\* mailto:, tel:) no fetch is issued, no failure is recorded and the
\* reference is left as it was.
C8_NonFetchableLeftAlone ==
  \A i \in 1..Len(soup) :
    page[i].attr.form = "opaque" =>
      /\ \A k \in 1..Len(requests) : requests[k] # page[i].attr
      /\ \A k \in 1..Len(failed_urls) : failed_urls[k][1] # page[i].attr
      /\ soup[i].attr = page[i].attr

\* The stored files of css/.
CssFiles == { p \in DOMAIN files : p.segs = <<"css">> }

\* The url(...) occurrences of @font-face blocks in the stored file p.
FontFaces(p) == { k \in 1..Len(files[p].urls) : files[p].urls[k].ff }

\* The calls of _process_fonts that requested their font.
FontFetches ==
  { c \in 1..Len(calls) : calls[c].subfolder = "fonts" /\ calls[c].fetch # "skip" }

\* C9: at the end of the run, for every stored stylesheet, the font of each
\* @font-face url() was fetched into fonts/ by _process_fonts, no font was
\* fetched twice, and the url() is rewritten to ../fonts/<name>, the same
\* path in every stylesheet that references the font.
C9_FontsDiscoveredAndRewritten ==
  pc = "done" =>
    /\ \A p \in CssFiles : \A k \in FontFaces(p) :
         /\ files[p].urls[k].raw.form = "rel"
         /\ files[p].urls[k].raw.segs = <<"..", "fonts">>
         /\ \E c \in 1..Len(calls) :
              calls[c].subfolder = "fonts" /\ files[p].urls[k].raw = UpFontsPath(calls[c].path)
    /\ \A p, q \in CssFiles : \A k \in FontFaces(p) : \A l \in FontFaces(q) :
         files[p].urls[k].raw = files[q].urls[l].raw
    /\ \A i, j \in FontFetches : calls[i].url = calls[j].url => i = j

\* The page of the end-to-end scenario:
\* <link href="/s.css"> <img src="pic.jpg"> <style>body{color:red}</style>
EndToEndPage ==
  << Elem("link", Ref("rootrel", "", "", <<>>, "s", "css", ""), <<>>, ""),
     Elem("img", Ref("rel", "", "", <<>>, "pic", "jpg", ""), <<>>, ""),
     Elem("style", NoRef, <<>>, "body{color:red}") >>

SCssPath == LocalPath("css", [stem |-> "s", n |-> 0, ext |-> "css", sfx |-> ""])
PicPath == LocalPath("images", [stem |-> "pic", n |-> 0, ext |-> "jpg", sfx |-> ""])
BgUrl == Ref("abs", "https", Domain, <<>>, "bg", "png", "")
UpBgPath ==
  [form |-> "rel", scheme |-> "", host |-> "", segs |-> <<"..", "images">>,
   stem |-> "bg", n |-> 0, ext |-> "png", sfx |-> "", q |-> ""]

\* The end-to-end run has ended: every fetch succeeded and s.css was served
\* as body{background:url(bg.png)}.
EndToEndRun ==
  /\ pc = "done" /\ result = "True"
  /\ page = EndToEndPage
  /\ failed_urls = <<>>
  /\ SCssPath \in DOMAIN files
  /\ Len(files[SCssPath].urls) = 1
  /\ ~files[SCssPath].urls[1].ff

\* C10: the end-to-end run yields an index.html that references css/s.css,
\* images/pic.jpg and css/inline.css, fetches bg.png, and stores a css/s.css
\* whose url() is rewritten to ../images/bg.png.
C10_EndToEnd ==
  EndToEndRun =>
    /\ index_html[1].attr = SCssPath
    /\ index_html[2].attr = PicPath
    /\ \E i \in 1..Len(index_html) :
         /\ index_html[i].tag = "link" /\ ~index_html[i].removed
         /\ index_html[i].attr = LocalPath("css", InlineCssName)
    /\ \E k \in 1..Len(requests) : requests[k] = BgUrl
    /\ files[SCssPath].urls[1].raw = UpBgPath

\* C12: at the end of the run every same-origin reference extracted from the
\* page is rewritten to the path download_resource assigned to it: the href
\* or src of a link, script or img, and every url(...) of an inline style
\* attribute that resolves to the URL of the call, however it was spelled.
C12_EveryReferenceRewritten ==
  (pc = "done" /\ result = "True") =>
    \A c \in 1..Len(calls) :
      /\ calls[c].site \in {"href", "src"} =>
           index_html[calls[c].tag].attr = calls[c].path
      /\ calls[c].site = "style" =>
           \A k \in 1..Len(page[calls[c].tag].style) :
             Resolved(page[calls[c].tag].style[k]) = calls[c].url
               => index_html[calls[c].tag].style[k] = calls[c].path

\* The non-blank inline blocks of the page: <style>, or <script> without src.
InlineBlocks(tag) ==
  { i \in 1..Len(page) :
      page[i].tag = tag /\ page[i].attr.form = "none" /\ page[i].text # "" }

\* The elements of index.html that refer to path.
RefsTo(tag, path) ==
  { i \in 1..Len(index_html) :
      /\ index_html[i].tag = tag /\ ~index_html[i].removed
      /\ index_html[i].attr = path }

\* The texts of the blocks at the positions S, in document order.
TextsOf(S) == [k \in 1..Cardinality(S) |-> page[Ascending(S)[k]].text]

\* C13: for a page with inline <style> (respectively <script>) blocks, with
\* or without a <head>, at the end of the run the blocks are removed from
\* the tree, index.html holds exactly one reference to css/inline.css
\* (respectively js/inline.js), and the aggregate file holds the texts of
\* the blocks in document order.
C13_InlineBlocksAggregated ==
  (pc = "done" /\ result = "True") =>
    /\ InlineBlocks("style") # {} =>
         /\ \A i \in InlineBlocks("style") : index_html[i].removed
         /\ Cardinality(RefsTo("link", LocalPath("css", InlineCssName))) = 1
         /\ LocalPath("css", InlineCssName) \in DOMAIN files
         /\ files[LocalPath("css", InlineCssName)].blocks = TextsOf(InlineBlocks("style"))
    /\ InlineBlocks("script") # {} =>
         /\ \A i \in InlineBlocks("script") : index_html[i].removed
         /\ Cardinality(RefsTo("script", LocalPath("js", InlineJsName))) = 1
         /\ LocalPath("js", InlineJsName) \in DOMAIN files
         /\ files[LocalPath("js", InlineJsName)].blocks = TextsOf(InlineBlocks("script"))

\* C14: at the end of the run every link, script and img of the page whose
\* URL resolves to a host other than the site domain is still present in
\* index.html with the attribute value it had in the page.
C14_ForeignLeftUntouched ==
  (pc = "done" /\ result = "True") =>
    \A i \in 1..Len(page) :
      (/\ page[i].tag \in {"link", "script", "img"}
       /\ page[i].attr.form # "none"
       /\ netloc(Resolved(page[i].attr)) \notin {Domain, ""})
        => ~index_html[i].removed /\ index_html[i].attr = page[i].attr

\* The stored files that hold the text of a fetched stylesheet.
StoredStylesheets == { p \in CssFiles : files[p].src # NoRef }

\* A url(...) that was rewritten to a local path: ../<folder>/<name>.
IsLocalRef(raw) ==
  raw.form = "rel" /\ Len(raw.segs) = 2 /\ raw.segs[1] = ".."

\* The calls the second pass made for url.
SecondPassCalls(url) ==
  { c \in 1..Len(calls) : calls[c].site = "css" /\ calls[c].url = url }

\* C17: at the end of the run, every url(...) of the text of a fetched
\* stylesheet that resolves to a same-origin URL, font or not, was fetched
\* once by the second pass and is rewritten in the stored text to a local
\* path.
C17_EveryCssUrlDiscovered ==
  (pc = "done" /\ result = "True") =>
    \A p \in StoredStylesheets : \A k \in 1..Len(files[p].orig) :
      is_same_domain(Resolved(files[p].orig[k].raw), Domain) =>
        /\ Cardinality(SecondPassCalls(Resolved(files[p].orig[k].raw))) = 1
        /\ IsLocalRef(files[p].urls[k].raw)

\* C18: when the second pass starts (_process_fonts has listed the css
\* files and opened none yet), every stylesheet whose fetch succeeded is
\* among the files it is going to read, whatever its file name.
C18_SecondPassCoversEveryStylesheet ==
  (pc = "fonts" /\ cur_css = NoRef) =>
    \A c \in AttrCalls :
      (calls[c].subfolder = "css" /\ calls[c].fetch = "ok") => calls[c].path \in css_left

\* C19: at the end of the run, for every stylesheet the second pass read and
\* every relative url(...) of a font in its text, the URL that was requested
\* is the url resolved against the stylesheet's own URL.
C19_RelativeToStylesheetUrl ==
  (pc = "done" /\ result = "True") =>
    \A p \in StoredStylesheets \cap GlobCss(files) : \A k \in 1..Len(files[p].orig) :
      (files[p].orig[k].raw.form = "rel" /\ files[p].orig[k].raw.ext \in FontExts) =>
        \E i \in 1..Len(requests) :
          requests[i] = urljoin(files[p].src, files[p].orig[k].raw)

\* C11: when the same document is normalized twice against the same mocked
\* responses, the second run ends with the same result, the same index.html,
\* the same stored files (the rewritten stylesheets among them) and the same
\* local paths as the first, whatever the order in which css/*.css is
\* listed and although the files of the first run are in the directory.
C11_Deterministic ==
  (run = 2 /\ pc = "done") =>
    /\ result = first.result
    /\ index_html = first.index_html
    /\ files = first.files
    /\ PathsOf(calls) = first.paths

\* C15: is_same_domain(url, domain) is true exactly when the netloc of the URL
\* is the string domain or is empty: another host, a subdomain and the same
\* host with an explicit port are foreign, a URL without a host is
\* same-origin, and two calls with the same arguments return the same value.
HostText(url) == IF url.form \in {"abs", "protorel"} THEN url.host ELSE ""

C15_SameDomainExact ==
  \A i \in 1..Len(fn_ret) :
    LET url == fn_arg[1]
        domain == fn_arg[2]
    IN /\ fn_ret[i] = fn_ret[1]
       /\ fn_ret[i] <=> (HostText(url) = domain \/ HostText(url) = "")
       /\ (HostText(url) = "cdn.ex.com" /\ domain = "ex.com") => ~fn_ret[i]
       /\ (HostText(url) = "ex.com:8080" /\ domain = "ex.com") => ~fn_ret[i]
       /\ (HostText(url) = "other.com" /\ domain = "ex.com") => ~fn_ret[i]
       /\ (HostText(url) = "ex.com" /\ domain = "ex.com") => fn_ret[i]
       /\ url.form \in {"rootrel", "rel"} => fn_ret[i]

\* A subdomain of the site and the site with a port have both been classified
\* twice.
C15_Witness ==
  /\ Len(fn_ret) = MaxCalls
  /\ fn_arg[2] = "ex.com"
  /\ fn_arg[1].host \in {"cdn.ex.com", "ex.com:8080"}
  /\ ~fn_ret[1]

\* C16: index.html is written after every resource request of the run has
\* been answered, and no request is started after index.html has been written,
\* in WebsiteNormalizer.normalize and in WebsiteCloner.clone.
C16_NormalizerBarrier == index_html # <<>> => pc = "done"

C16_ClonerBarrier ==
  \A t \in Threads : \A i, j \in 1..Len(cl_log[t]) :
    (cl_log[t][i] = "index" /\ cl_log[t][j] = "get") => j < i

C16_IndexAfterFetches == C16_NormalizerBarrier /\ C16_ClonerBarrier

\* C20: two clone threads of the same site never hold the same output file
\* open for writing at the same time, and no thread builds the archive of
\* the folder while the other thread is still cloning into it.
C20_SingleWriter ==
  /\ \A f \in OutFiles : Cardinality(writers[f]) <= 1
  /\ \A t, u \in Threads :
       (t # u /\ cl_pc[t] = "zip_walk") => cl_pc[u] \notin Cloning

\* C23: fetch records are never removed during a run of one downloader:
\* downloaded_urls only grows, failed_urls only gets pairs appended (the old
\* pairs stay, in their order), and get_downloaded_count() never decreases.
C23_RecordsOnlyGrow ==
  [][ /\ downloaded_urls \subseteq downloaded_urls'
      /\ Len(get_failed_urls(Downloader)') >= Len(get_failed_urls(Downloader))
      /\ SubSeq(failed_urls', 1, Len(failed_urls)) = failed_urls
      /\ get_downloaded_count(Downloader)' >= get_downloaded_count(Downloader) ]_vars

\* A URL failed, and was fetched later by the same downloader.
C23_Witness ==
  \E i, j \in 1..Len(calls) :
    i < j /\ calls[i].url = calls[j].url /\ calls[i].fetch = "failed"
          /\ calls[j].fetch = "ok" /\ pc = "downloader"

\* C27: no URL is both in downloaded_urls and named in failed_urls.
C27_SingleOutcome ==
  \A i \in 1..Len(failed_urls) : failed_urls[i][1] \notin downloaded_urls

\* C30: download_file changes the downloader as its result says: False means
\* downloaded_urls unchanged and one (url, error) pair appended; True after a
\* fetch means url added and failed_urls unchanged; a URL that is already in
\* downloaded_urls gives True with no request, no write and no change.
C30_FrameOfDownloadFile ==
  [][ pc = "downloader" =>
      LET c == calls'[Len(calls')]
      IN  /\ ~c.ret =>
               /\ downloaded_urls' = downloaded_urls
               /\ Len(failed_urls') = Len(failed_urls) + 1
               /\ SubSeq(failed_urls', 1, Len(failed_urls)) = failed_urls
               /\ failed_urls'[Len(failed_urls')][1] = c.url
          /\ (c.ret /\ c.url \notin downloaded_urls) =>
               /\ downloaded_urls' = downloaded_urls \cup {c.url}
               /\ failed_urls' = failed_urls
               /\ requests' = Append(requests, c.url)
          /\ c.url \in downloaded_urls =>
               /\ c.ret
               /\ UNCHANGED << downloaded_urls, failed_urls, requests, files >> ]_vars

\* A URL that is in downloaded_urls was asked for again with another path,
\* and a call has failed.
C30_Witness ==
  /\ pc = "downloader"
  /\ \E i, j \in 1..Len(calls) :
       i < j /\ calls[i].url = calls[j].url /\ calls[i].fetch = "ok"
             /\ calls[j].fetch = "skip" /\ calls[i].file_path # calls[j].file_path
  /\ \E k \in 1..Len(calls) : ~calls[k].ret

\* C22: for every Content-Type value, an absent header among them,
\* ResourceDownloader.download_file and WebsiteCloner._download_file store
\* the response in the same mode: text when the content type carries a text
\* marker, binary otherwise.
C22_SameStorageMode ==
  \A i, j \in 1..Len(fn_ret) :
    (pc = "store" /\ fn_ret[i].by # fn_ret[j].by) => fn_ret[i].mode = fn_ret[j].mode

\* C21: every file name the normalizer passes to download_resource is one
\* path component without illegal characters (< > : " | ? *, control
\* characters, path separators), so the resource is stored directly inside
\* its category folder.
HasSeparator(token) == token \in {"2/pic", "2/"}

HasIllegal(token) == token \in {"mailto:a@ex"}

SingleComponent(filename) ==
  \A token \in {filename.stem, filename.ext, filename.sfx} :
    ~HasSeparator(token) /\ ~HasIllegal(token)

C21_FileNamesAreSingleComponents ==
  \A i \in 1..Len(calls) : SingleComponent(calls[i].filename)

\* C28: after normalize the src of every same-origin <img> is the local path
\* assigned to its own original src URL, and the file at that path holds what
\* was fetched from that URL, also when the <img> has a style attribute with
\* url(...) references.
C28_ImageKeepsItsOwnFile ==
  (pc = "done" /\ result = "True") =>
    \A i \in 1..Len(page) :
      LET url == Resolved(page[i].attr)
      IN  (page[i].tag = "img" /\ page[i].attr.form # "none"
             /\ is_same_domain(url, Domain) /\ url \in downloaded_urls) =>
            /\ index_html[i].attr \in DOMAIN files
            /\ files[index_html[i].attr].src = url
            /\ \E c \in AttrCalls :
                 calls[c].tag = i /\ calls[c].url = url
                                 /\ calls[c].path = index_html[i].attr

\* C29: _rewrite_paths treats a foreign reference the same way however its
\* URL is spelled: two references of the same kind of tag that resolve to the
\* same foreign URL are both removed (or given the placeholder), or both kept.
Kept(i) == ~index_html[i].removed /\ index_html[i].attr = page[i].attr

C29_ForeignPolicyUniform ==
  (pc = "done" /\ result = "True") =>
    \A i, j \in 1..Len(page) :
      (/\ page[i].tag = page[j].tag
       /\ page[i].attr.form # "none" /\ page[j].attr.form # "none"
       /\ Resolved(page[i].attr) = Resolved(page[j].attr)
       /\ ~is_same_domain(Resolved(page[i].attr), Domain)) =>
        (Kept(i) <=> Kept(j))

\* C24: every file a clone() run writes lies inside output_dir, whatever the
\* references of the page and of its stylesheets are, same-origin absolute
\* URLs with ".." segments among them.
Climbs(segs, k) ==
  Cardinality({ j \in 1..k : segs[j] = ".." }) > Cardinality({ j \in 1..k : segs[j] # ".." })

Outside(path) == \E k \in 1..Len(path.segs) : Climbs(path.segs, k)

C24_WritesStayInsideOutputDir == \A path \in DOMAIN files : ~Outside(path)

\* C25: the URL clone() requests for a reference of the page is the
\* reference as written in the original page, resolved against the page URL,
\* also for a page URL with a path of its own (two URLs that differ only by
\* resolved ".." segments count as the same).
SameResource(u, v) ==
  [u EXCEPT !.segs = RemoveDots(@)] = [v EXCEPT !.segs = RemoveDots(@)]

C25_FetchesTheOriginalReference ==
  \A c \in 1..Len(calls) :
    (pc \in {"cloner_resources", "cloner_css", "cloner_done"} /\ calls[c].site = "html") =>
      SameResource(calls[c].url,
                   WithoutQuery(resolve_url(page[calls[c].tag].attr, fn_arg[1])))

\* C26: every url(...) of a stored stylesheet whose resource was downloaded
\* in the pass over the stylesheets is rewritten to a local path, and that
\* path, taken relative to the place of the stylesheet, is where the resource
\* was saved (a relative url(...) that already names that place counts as
\* rewritten).
C26_DownloadedCssUrlsRewritten ==
  \A c \in 1..Len(calls) :
    (pc = "cloner_done" /\ calls[c].site = "css" /\ calls[c].fetch = "ok") =>
      LET css_file == calls[c].css
          now == files[css_file].urls[1].raw
      IN  /\ now.form = "rel"
          /\ resource_path(css_file, now) = calls[c].path

=============================================================================
